---- MODULE Spec2Model ----
(***************************************************************************)
(* build.py: regenerates the gallery section of index.html from the        *)
(* radios/*.json records and patches the radio<n>.desc entries of the two  *)
(* inline translation blocks.                                              *)
(*                                                                         *)
(* Text is modelled as a sequence of tokens (strings).  The gallery        *)
(* markers, the translation keys and the fixed chunks of a card's markup   *)
(* are single tokens; quotes, backslashes, braces, colons and blanks are   *)
(* tokens of their own, so that the marker search, the brace scan and the  *)
(* regular-expression substitution work on them as the code does on        *)
(* characters.                                                             *)
(***************************************************************************)
EXTENDS Integers, Sequences, FiniteSets, TLC

VARIABLES
    files,      \* radios/: file name -> [ok, data] (ok = FALSE: not valid JSON)
    disk,       \* the text of index.html on disk
    pc,         \* position of the running main()
    radios,     \* main's local list of loaded records
    html,       \* main's local document text
    cards,      \* the cards rendered by render_gallery in this run
    trans,      \* main's en_entries and es_entries, as [en, es]
    out,        \* lines printed in this run
    outcome,    \* how the run ended ("running" until then)
    exitcode,   \* process exit status (-1 while running)
    writes,     \* number of writes of index.html in this run
    runNo,      \* number of the current run
    disk0,      \* index.html as it was when the current run started
    prevBuilt   \* the previous run wrote the document

vars == <<files, disk, pc, radios, html, cards, trans, out, outcome, exitcode,
          writes, runNo, disk0, prevBuilt>>

(* ------------------------------ bounds -------------------------------- *)
MaxRuns == 3
MaxRadios == 2

(* ------------------------------ tokens -------------------------------- *)
GALLERY_START == "<!-- GALLERY:START -->"
GALLERY_END == "<!-- GALLERY:END -->"
Q == "'"
BS == "\\"
INDENT == "\n                "

IsWs(t) == t \in {" ", "\n", INDENT}

Range(s) == {s[i] : i \in 1..Len(s)}

\* str.find on tokens: the first position of t at or after from, 0 if none
\* (Python's -1).
findFrom(s, t, from) ==
    IF \E i \in from..Len(s) : s[i] = t
    THEN CHOOSE i \in from..Len(s) : s[i] = t /\ \A j \in from..(i - 1) : s[j] # t
    ELSE 0

rfind(s, t) ==
    IF \E i \in 1..Len(s) : s[i] = t
    THEN CHOOSE i \in 1..Len(s) : s[i] = t /\ \A j \in (i + 1)..Len(s) : s[j] # t
    ELSE 0

find(s, t) == findFrom(s, t, 1)

\* html[:i] and html[i:] for a 1-based position i
Before(s, i) == SubSeq(s, 1, i - 1)
After(s, i) == SubSeq(s, i + 1, Len(s))

(* --------------------------- load_radios ------------------------------ *)
\* File names are sequences of character codes (the name up to and
\* including the dot of ".json"); sorted() orders them lexicographically.
RECURSIVE PathLess(_, _)
PathLess(a, b) ==
    IF a = <<>> THEN b # <<>>
    ELSE IF b = <<>> THEN FALSE
    ELSE IF Head(a) # Head(b) THEN Head(a) < Head(b)
    ELSE PathLess(Tail(a), Tail(b))

RECURSIVE sorted(_)
sorted(S) ==
    IF S = {} THEN <<>>
    ELSE LET m == CHOOSE x \in S : \A y \in S \ {x} : PathLess(x, y)
         IN  <<m>> \o sorted(S \ {m})

WithFile(data, name) ==
    [k \in DOMAIN data \cup {"_file"} |-> IF k = "_file" THEN name ELSE data[k]]

\* Faulty variant: the files in numeric order of their stems ("2" before "10").
RECURSIVE numeric_sorted(_)
numeric_sorted(S) ==
    IF S = {} THEN <<>>
    ELSE LET m == CHOOSE x \in S : \A y \in S \ {x} :
                     Len(x) < Len(y) \/ (Len(x) = Len(y) /\ PathLess(x, y))
         IN  <<m>> \o numeric_sorted(S \ {m})

load_radios_numeric(dir) ==
    LET names == numeric_sorted(DOMAIN dir)
    IN  [i \in 1..Len(names) |-> WithFile(dir[names[i]].data, names[i])]

load_radios(dir) ==
    LET names == sorted(DOMAIN dir)
    IN  [i \in 1..Len(names) |-> WithFile(dir[names[i]].data, names[i])]

load_raises(dir) == \E f \in DOMAIN dir : ~dir[f].ok

(* --------------------------- format_price ----------------------------- *)
Pad3(n) ==
    IF n < 10 THEN "00" \o ToString(n)
    ELSE IF n < 100 THEN "0" \o ToString(n)
    ELSE ToString(n)

RECURSIVE Grouped(_)
Grouped(n) ==
    IF n < 1000 THEN ToString(n)
    ELSE Grouped(n \div 1000) \o "." \o Pad3(n % 1000)

format_price(price) == Grouped(price) \o "€"

(* ---------------------------- render_card ----------------------------- *)
Mandatory == {"year", "model", "image", "description_en", "description_es"}

get(radio, k, default) == IF k \in DOMAIN radio THEN radio[k] ELSE default

i18n_key(index) == "radio" \o ToString(index) \o ".desc"

OVERLAY == "<div ribbon data-i18n=\"gallery.sold\">Sold</div>"
SOLD_LABEL == "<span data-i18n=\"gallery.sold\">Sold</span>"
COLLECTION_LABEL == "<span data-i18n=\"gallery.collection\">Personal Collection</span>"
MAILTO == "<a href=\"mailto:info@arstechnica.shop?subject=Inquiry: "
CARD_OPEN == "<div class=\"service-card\" data-status=\""
CARD_CLOSE == "</div></div></div>"

\* Faulty variant: the collection branch falls into the sale branch.
action_row_sale_for_collection(radio, status) ==
    IF status = "sold"
    THEN <<"<span line-through>", format_price(get(radio, "price", 0)), "</span>",
           SOLD_LABEL>>
    ELSE <<"<span>", format_price(get(radio, "price", 0)), "</span>",
           MAILTO, radio["model"], "\" data-i18n=\"gallery.inquire\">Inquire</a>">>

action_row(radio, status) ==
    IF status = "sold"
    THEN <<"<span line-through>", format_price(get(radio, "price", 0)), "</span>",
           SOLD_LABEL>>
    ELSE IF status = "collection"
    THEN <<COLLECTION_LABEL, "<span></span>">>
    ELSE <<"<span>", format_price(get(radio, "price", 0)), "</span>",
           MAILTO, radio["model"], "\" data-i18n=\"gallery.inquire\">Inquire</a>">>

render_raises(radio) == ~(Mandatory \subseteq DOMAIN radio)

render_card(radio, index) ==
    LET status == get(radio, "status", "sale")
        position_relative == IF status = "sold" THEN <<" position: relative;">> ELSE <<>>
        overlay == IF status = "sold" THEN <<OVERLAY>> ELSE <<>>
    IN  <<CARD_OPEN, status, "\" style=\"">> \o position_relative \o <<"\">">>
        \o overlay
        \o <<"<img src=\"", radio["image"], "\" alt=\"", ToString(radio["year"]),
             radio["model"], "\">",
             "<div year>", ToString(radio["year"]), "</div>",
             "<h4>", radio["model"], "</h4>",
             "<p data-i18n=\"", i18n_key(index), "\">">>
        \o radio["description_en"]
        \o <<"</p>", "<div actions>">>
        \o action_row(radio, status)
        \o <<CARD_CLOSE>>

(* --------------------------- render_gallery --------------------------- *)
RECURSIVE Flatten(_)
Flatten(ss) == IF ss = <<>> THEN <<>> ELSE Head(ss) \o Flatten(Tail(ss))

render_cards(rs) == [i \in 1..Len(rs) |-> render_card(rs[i], i)]

render_gallery(cs) ==
    <<GALLERY_START, INDENT>> \o Flatten(cs) \o <<INDENT, GALLERY_END>>

(* ------------------------- build_translations ------------------------- *)
\* A dict in insertion order: a sequence of <<key, value>> pairs.
entries_of(rs, field) == [i \in 1..Len(rs) |-> <<i18n_key(i), rs[i][field]>>]

NoEntries == [en |-> <<>>, es |-> <<>>]

build_translations(rs) ==
    [en |-> entries_of(rs, "description_en"), es |-> entries_of(rs, "description_es")]

(* ------------------------- update_translations ------------------------ *)
NoBlock == [start |-> 0, end |-> 0]

MarkerAt(h, lang_key, i) ==
    /\ i + 3 <= Len(h)
    /\ h[i] = lang_key /\ h[i + 1] = ":" /\ h[i + 2] = " " /\ h[i + 3] = "{"

\* html.find(f"{lang_key}: {{")
find_marker(h, lang_key) ==
    IF \E i \in 1..Len(h) : MarkerAt(h, lang_key, i)
    THEN CHOOSE i \in 1..Len(h) :
            MarkerAt(h, lang_key, i) /\ \A j \in 1..(i - 1) : ~MarkerAt(h, lang_key, j)
    ELSE 0

\* The loop over range(brace_start, len(html)): position of the brace that
\* brings depth back to 0, or 0 when the text ends first.
RECURSIVE scan_braces(_, _, _)
scan_braces(h, i, depth) ==
    IF i > Len(h) THEN 0
    ELSE IF h[i] = "{" THEN scan_braces(h, i + 1, depth + 1)
    ELSE IF h[i] = "}"
         THEN IF depth - 1 = 0 THEN i ELSE scan_braces(h, i + 1, depth - 1)
    ELSE scan_braces(h, i + 1, depth)

\* The block is h[start..end], both inclusive (Python's html[start:end]).
\* Faulty variant: the test "start == -1" is left out.
find_lang_block_unchecked(h, lang_key) ==
    LET start == find_marker(h, lang_key)
        brace_start == findFrom(h, "{", start + 1)
        close == scan_braces(h, brace_start, 0)
    IN  IF brace_start = 0 \/ close = 0 THEN NoBlock
        ELSE [start |-> brace_start, end |-> close]

find_lang_block(h, lang_key) ==
    LET start == find_marker(h, lang_key)
    IN  IF start = 0 THEN NoBlock
        ELSE LET brace_start == findFrom(h, "{", start + 1)
                 close == scan_braces(h, brace_start, 0)
             IN  IF close = 0 THEN NoBlock
                 ELSE [start |-> brace_start, end |-> close]

\* value.replace("'", "\\'")
RECURSIVE escape(_)
escape(value) ==
    IF value = <<>> THEN <<>>
    ELSE (IF Head(value) = Q THEN <<BS, Q>> ELSE <<Head(value)>>) \o escape(Tail(value))

\* re.sub reads its replacement rf"\g<1>{escaped}\g<2>" as a template: a
\* backslash and the character after it are one escape.  "\\" is a
\* backslash, "\n" a newline, a backslash before any other ASCII letter is
\* an error ("bad escape"), before anything else it stands for itself.
Letters == {"d", "e", "n", "o", "s", "v"}

RECURSIVE template_raises(_)
template_raises(t) ==
    IF t = <<>> THEN FALSE
    ELSE IF Head(t) # BS THEN template_raises(Tail(t))
    ELSE IF Len(t) = 1 THEN FALSE
    ELSE IF t[2] \in Letters \ {"n"} THEN TRUE
    ELSE template_raises(Tail(Tail(t)))

\* The text the template stands for after group 1: [body, g2], g2 telling
\* whether group 2 (the closing quote) is still emitted.  A backslash that
\* ends the escaped value pairs with the backslash of "\g<2>": the result
\* is a backslash followed by the literal text g<2>.
RECURSIVE expand_template(_)
expand_template(t) ==
    IF t = <<>> THEN [body |-> <<>>, g2 |-> TRUE]
    ELSE IF Head(t) # BS
    THEN LET r == expand_template(Tail(t))
         IN  [body |-> <<Head(t)>> \o r.body, g2 |-> r.g2]
    ELSE IF Len(t) = 1 THEN [body |-> <<BS, "g<2>">>, g2 |-> FALSE]
    ELSE LET r == expand_template(Tail(Tail(t)))
             lit == IF t[2] = BS THEN <<BS>>
                    ELSE IF t[2] = "n" THEN <<"\n">>
                    ELSE <<BS, t[2]>>
         IN  [body |-> lit \o r.body, g2 |-> r.g2]

RECURSIVE skip_ws(_, _)
skip_ws(b, i) == IF i <= Len(b) /\ IsWs(b[i]) THEN skip_ws(b, i + 1) ELSE i

\* A match of  'key'\s*:\s*'[^']*'  starting at p: [open, close] are the
\* positions of the value's quotes; open = 0 when there is no match at p.
NoMatch == [open |-> 0, close |-> 0]

match_at(b, p, key) ==
    IF ~(p + 2 <= Len(b) /\ b[p] = Q /\ b[p + 1] = key /\ b[p + 2] = Q) THEN NoMatch
    ELSE LET colon == skip_ws(b, p + 3)
         IN  IF ~(colon <= Len(b) /\ b[colon] = ":") THEN NoMatch
             ELSE LET open == skip_ws(b, colon + 1)
                  IN  IF ~(open <= Len(b) /\ b[open] = Q) THEN NoMatch
                      ELSE LET close == findFrom(b, Q, open + 1)
                           IN  IF close = 0 THEN NoMatch
                               ELSE [open |-> open, close |-> close]

\* re.sub(pattern, rf"\g<1>{escaped}\g<2>", block): every non-overlapping
\* match, left to right.
RECURSIVE re_sub(_, _, _, _)
re_sub(b, p, key, repl) ==
    IF p > Len(b) THEN <<>>
    ELSE LET m == match_at(b, p, key)
         IN  IF m.open = 0 THEN <<b[p]>> \o re_sub(b, p + 1, key, repl)
             ELSE SubSeq(b, p, m.open) \o repl.body
                  \o (IF repl.g2 THEN <<b[m.close]>> ELSE <<>>)
                  \o re_sub(b, m.close + 1, key, repl)

RECURSIVE replace_keys_in_slice(_, _)
replace_keys_in_slice(block, entries) ==
    IF entries = <<>> THEN block
    ELSE LET key == Head(entries)[1]
             escaped == escape(Head(entries)[2])
         IN  replace_keys_in_slice(re_sub(block, 1, key, expand_template(escaped)),
                                   Tail(entries))

slice_raises(entries) ==
    \E i \in 1..Len(entries) : template_raises(escape(entries[i][2]))

\* One round of the loop over [("en", en_entries), ("es", es_entries)].
patch_lang(h, lang_key, entries) ==
    LET blk == find_lang_block(h, lang_key)
    IN  IF blk.start = 0 THEN h
        ELSE Before(h, blk.start)
             \o replace_keys_in_slice(SubSeq(h, blk.start, blk.end), entries)
             \o After(h, blk.end)

lang_raises(h, lang_key, entries) ==
    find_lang_block(h, lang_key).start # 0 /\ slice_raises(entries)

update_translations(h, en_entries, es_entries) ==
    patch_lang(patch_lang(h, "en", en_entries), "es", es_entries)

update_raises(h, en_entries, es_entries) ==
    \/ lang_raises(h, "en", en_entries)
    \/ lang_raises(patch_lang(h, "en", en_entries), "es", es_entries)

(* ------------------------------ inputs -------------------------------- *)
\* "1.json", "10.json", "2.json"
FileNames == {<<49, 46>>, <<49, 48, 46>>, <<50, 46>>}

Plain ==
    [year |-> 1940, model |-> "Philco 40-180", image |-> "philco.jpg", price |-> 850,
     description_en |-> <<"d">>, description_es |-> <<"e">>]
Sold ==
    [year |-> 1936, model |-> "Zenith 6-S-27", image |-> "zenith.jpg", price |-> 1234,
     status |-> "sold",
     description_en |-> <<"d", Q, "s">>, description_es |-> <<"e", "s">>]
Collection ==
    [year |-> 1951, model |-> "Telefunken", image |-> "telefunken.jpg", price |-> 125000,
     status |-> "collection",
     description_en |-> <<"o">>, description_es |-> <<"v", BS>>]
Reserved ==
    [year |-> 1948, model |-> "Grundig", image |-> "grundig.jpg",
     status |-> "reserved",
     description_en |-> <<BS, "d">>, description_es |-> <<"e">>]
NoModel ==
    [year |-> 1955, image |-> "x.jpg", price |-> 10,
     description_en |-> <<"d">>, description_es |-> <<"e">>]

FileContents ==
    {[ok |-> TRUE, data |-> r] : r \in {Plain, Sold, Collection, Reserved, NoModel}}
    \cup {[ok |-> FALSE, data |-> <<>>]}

Directories ==
    UNION {[N -> FileContents] : N \in {M \in SUBSET FileNames : Cardinality(M) <= MaxRadios}}

Entry(key, value) == <<Q, key, Q, ":", " ", Q>> \o value \o <<Q>>

GalleryOk == <<GALLERY_START, "<old cards>", GALLERY_END>>
Galleries ==
    {GalleryOk,
     <<"<old cards>", GALLERY_END>>,
     <<GALLERY_START, "<old cards>">>,
     <<"<old cards>">>,
     <<GALLERY_START, "<x>", GALLERY_START, "<old cards>", GALLERY_END>>,
     <<GALLERY_START, "<old cards>", GALLERY_END, "<y>", GALLERY_END>>,
     <<GALLERY_END, "<x>", GALLERY_START>>}

EnFresh ==
    <<"en", ":", " ", "{">> \o Entry("radio1.desc", <<"old">>) \o <<",">>
    \o Entry("nav.home", <<"Home">>) \o <<",">>
    \o Entry("radio9.desc", <<"keep">>) \o <<"}">>
\* A block as an earlier run left it: an escaped quote in a value, blanks
\* around a colon, a nested literal.
EnUsed ==
    <<"en", ":", " ", "{">> \o Entry("radio1.desc", <<"d", BS, Q, "s">>) \o <<",">>
    \o <<Q, "radio2.desc", Q, " ", ":", "\n", Q, "two", Q, ",">>
    \o <<Q, "meta", Q, ":", " ", "{">> \o Entry("nav.home", <<"Nested">>) \o <<"}", "}">>
\* The English block written without the blank of "en: {".
EnUnmarked ==
    <<"en", ":", "{">> \o Entry("radio1.desc", <<"old">>) \o <<"}">>
EsFresh ==
    <<"es", ":", " ", "{">> \o Entry("radio1.desc", <<"viejo">>) \o <<",">>
    \o Entry("radio2.desc", <<"dos">>) \o <<",">>
    \o Entry("nav.home", <<"Inicio">>) \o <<"}">>

Doc(gallery, en, es) ==
    <<"<body>">> \o gallery \o <<"<script>", "const translations = ", "{">>
    \o en \o <<",">> \o es \o <<"}", ";">>

Documents ==
    {Doc(g, EnFresh, EsFresh) : g \in Galleries}
    \cup {Doc(GalleryOk, en, es) : en \in {EnUnmarked, EnFresh, EnUsed}, es \in {<<>>, EsFresh}}

(* ------------------------------- main --------------------------------- *)
Init ==
    /\ files \in Directories
    /\ disk \in Documents
    /\ pc = "start"
    /\ radios = <<>>
    /\ html = <<>>
    /\ cards = <<>>
    /\ trans = NoEntries
    /\ out = <<>>
    /\ outcome = "running"
    /\ exitcode = -1
    /\ writes = 0
    /\ runNo = 1
    /\ disk0 = disk
    /\ prevBuilt = FALSE

\* An uncaught exception: the traceback is printed and the process exits 1.
Raise(what) ==
    /\ pc' = "done"
    /\ out' = Append(out, "Traceback: " \o what)
    /\ outcome' = "raised"
    /\ exitcode' = 1

\* main returns: the process exits 0.
Return(how) ==
    /\ pc' = "done"
    /\ outcome' = how
    /\ exitcode' = 0

LoadRadios ==
    /\ pc = "start"
    /\ ~load_raises(files)
    /\ radios' = load_radios(files)
    /\ pc' = "loaded"
    /\ UNCHANGED <<files, disk, html, cards, trans, out, outcome, exitcode, writes, runNo,
                   disk0, prevBuilt>>

LoadRadiosRaises ==
    /\ pc = "start"
    /\ load_raises(files)
    /\ Raise("json.JSONDecodeError")
    /\ UNCHANGED <<files, disk, radios, html, cards, trans, writes, runNo, disk0, prevBuilt>>

NoRadios ==
    /\ pc = "loaded"
    /\ radios = <<>>
    /\ out' = Append(out, "No radio JSON files found in radios/")
    /\ Return("no radios")
    /\ UNCHANGED <<files, disk, radios, html, cards, trans, writes, runNo, disk0, prevBuilt>>

ReadHtml ==
    /\ pc = "loaded"
    /\ radios # <<>>
    /\ html' = disk
    /\ pc' = "read"
    /\ UNCHANGED <<files, disk, radios, cards, trans, out, outcome, exitcode, writes, runNo,
                   disk0, prevBuilt>>

\* Faulty variant: html.rfind(GALLERY_START).
start_idx_last(h) == rfind(h, GALLERY_START)

start_idx(h) == find(h, GALLERY_START)
end_idx(h) == find(h, GALLERY_END)

\* Faulty variant: "and" for "or".
markers_missing_both(h) == start_idx(h) = 0 /\ end_idx(h) = 0

MISSING_MARKER_DIAGNOSTIC == "Error: Could not find markers in index.html"

markers_missing(h) == start_idx(h) = 0 \/ end_idx(h) = 0

MarkersMissing ==
    /\ pc = "read"
    /\ markers_missing(html)
    /\ out' = out \o <<MISSING_MARKER_DIAGNOSTIC,
                       "Please add these markers around the gallery cards in index.html first.">>
    /\ Return("no markers")
    /\ UNCHANGED <<files, disk, radios, html, cards, trans, writes, runNo, disk0, prevBuilt>>

splice(h, new_gallery) ==
    Before(h, start_idx(h)) \o new_gallery \o After(h, end_idx(h))

SpliceGallery ==
    /\ pc = "read"
    /\ ~markers_missing(html)
    /\ \A i \in 1..Len(radios) : ~render_raises(radios[i])
    /\ cards' = render_cards(radios)
    /\ html' = splice(html, render_gallery(cards'))
    /\ pc' = "spliced"
    /\ UNCHANGED <<files, disk, radios, trans, out, outcome, exitcode, writes, runNo, disk0,
                   prevBuilt>>

RenderRaises ==
    /\ pc = "read"
    /\ ~markers_missing(html)
    /\ \E i \in 1..Len(radios) : render_raises(radios[i])
    /\ Raise("KeyError")
    /\ UNCHANGED <<files, disk, radios, html, cards, trans, writes, runNo, disk0, prevBuilt>>

BuildTranslations ==
    /\ pc = "spliced"
    /\ trans' = build_translations(radios)
    /\ pc' = "keyed"
    /\ UNCHANGED <<files, disk, radios, html, cards, out, outcome, exitcode, writes,
                   runNo, disk0, prevBuilt>>

UpdateTranslations ==
    /\ pc = "keyed"
    /\ ~update_raises(html, trans.en, trans.es)
    /\ html' = update_translations(html, trans.en, trans.es)
    /\ pc' = "patched"
    /\ UNCHANGED <<files, disk, radios, cards, trans, out, outcome, exitcode, writes,
                   runNo, disk0, prevBuilt>>

UpdateRaises ==
    /\ pc = "keyed"
    /\ update_raises(html, trans.en, trans.es)
    /\ Raise("re.error")
    /\ UNCHANGED <<files, disk, radios, html, cards, trans, writes, runNo, disk0,
                   prevBuilt>>

\* Faulty variant: the document is written as soon as the gallery is spliced.
WriteHtmlEarly ==
    /\ pc = "spliced"
    /\ writes = 0
    /\ disk' = html
    /\ writes' = writes + 1
    /\ UNCHANGED <<files, pc, radios, html, cards, trans, out, outcome, exitcode, runNo,
                   disk0, prevBuilt>>

WriteHtml ==
    /\ pc = "patched"
    /\ disk' = html
    /\ writes' = writes + 1
    /\ pc' = "written"
    /\ UNCHANGED <<files, radios, html, cards, trans, out, outcome, exitcode, runNo, disk0,
                   prevBuilt>>

label(r) ==
    LET st == get(r, "status", "sale")
    IN  IF st = "sold" THEN "SOLD"
        ELSE IF st = "collection" THEN "COLLECTION"
        ELSE format_price(get(r, "price", 0))

\* The dash of the summary line is written "--" here.
summary(rs) ==
    <<"Built gallery with " \o ToString(Len(rs)) \o " radio(s):">>
    \o [i \in 1..Len(rs) |->
          "  " \o ToString(rs[i]["year"]) \o " " \o rs[i]["model"] \o " -- " \o label(rs[i])]

PrintSummary ==
    /\ pc = "written"
    /\ out' = out \o summary(radios)
    /\ Return("built")
    /\ UNCHANGED <<files, disk, radios, html, cards, trans, writes, runNo, disk0, prevBuilt>>

\* The tool is run again on the document as the last run left it, with the
\* same records.
RunAgain ==
    /\ pc = "done"
    /\ runNo < MaxRuns
    /\ runNo' = runNo + 1
    /\ disk0' = disk
    /\ prevBuilt' = (outcome = "built")
    /\ pc' = "start"
    /\ radios' = <<>>
    /\ html' = <<>>
    /\ cards' = <<>>
    /\ trans' = NoEntries
    /\ out' = <<>>
    /\ outcome' = "running"
    /\ exitcode' = -1
    /\ writes' = 0
    /\ UNCHANGED <<files, disk>>

Next ==
    \/ LoadRadios
    \/ LoadRadiosRaises
    \/ NoRadios
    \/ ReadHtml
    \/ MarkersMissing
    \/ SpliceGallery
    \/ RenderRaises
    \/ BuildTranslations
    \/ UpdateTranslations
    \/ UpdateRaises
    \/ WriteHtml
    \/ PrintSummary
    \/ RunAgain

Spec == Init /\ [][Next]_vars

TypeOK ==
    /\ pc \in {"start", "loaded", "read", "spliced", "keyed", "patched", "written", "done"}
    /\ outcome \in {"running", "built", "no radios", "no markers", "raised"}
    /\ exitcode \in {-1, 0, 1}
    /\ runNo \in 1..MaxRuns
    /\ writes \in 0..1

(* ------------------------------ claims -------------------------------- *)
FirstPos(s, t) == CHOOSE i \in 1..Len(s) : s[i] = t /\ \A j \in 1..(i - 1) : s[j] # t
LastPos(s, t) == CHOOSE i \in 1..Len(s) : s[i] = t /\ \A j \in (i + 1)..Len(s) : s[j] # t
Occurrences(s, t) == Cardinality({i \in 1..Len(s) : s[i] = t})

\* C1: in a run that loaded at least one record and whose document lacks the
\* gallery start marker or the gallery end marker, index.html is never
\* written (it stays as it was when the run started) and the run ends having
\* printed the missing-marker diagnostic.
C1_MissingMarkerLeavesDocument ==
    (radios # <<>> /\ (GALLERY_START \notin Range(disk0) \/ GALLERY_END \notin Range(disk0)))
    => /\ writes = 0
       /\ disk = disk0
       /\ pc = "done" => MISSING_MARKER_DIAGNOSTIC \in Range(out)

C1_Witness ==
    /\ pc = "done"
    /\ radios # <<>>
    /\ GALLERY_START \in Range(disk0) /\ GALLERY_END \notin Range(disk0)
    /\ MISSING_MARKER_DIAGNOSTIC \in Range(out)

\* The document main builds from the records and the document it read.
FullyTransformed(dir, doc) ==
    LET rs == load_radios(dir)
        tr == build_translations(rs)
    IN  update_translations(splice(doc, render_gallery(render_cards(rs))), tr.en, tr.es)

\* C5: a run writes index.html at most once; the write comes after loading,
\* rendering, splicing and patching, so the file holds the fully transformed
\* document; until then, and in every run that ends early (no records, a
\* record that does not parse, a missing mandatory field, a missing marker),
\* the file is the one the run started with.
C5_AllOrNothingWrite ==
    /\ writes \in {0, 1}
    /\ writes = 0 => disk = disk0
    /\ writes = 1 =>
          /\ pc \in {"written", "done"}
          /\ outcome \in {"running", "built"}
          /\ Len(cards) = Len(radios) /\ Len(trans.en) = Len(radios)
          /\ disk = html
          /\ disk = FullyTransformed(files, disk0)
    /\ outcome \in {"no radios", "no markers", "raised"} => writes = 0 /\ disk = disk0
    /\ (pc = "done" /\ outcome = "built") => writes = 1

C5_Witness == pc = "done" /\ outcome = "built" /\ writes = 1 /\ disk # disk0

\* C6: a run that found records either completes (document written, summary
\* printed) or aborts with a printed diagnostic and a non-zero exit status;
\* a run aborted for a missing gallery marker ends with a non-zero status.
C6_AbortIsNonZero ==
    (pc = "done" /\ outcome # "no radios")
    => \/ outcome = "built" /\ writes = 1 /\ Len(out) = Len(radios) + 1
       \/ out # <<>> /\ exitcode # 0

\* The file name of rank i in lexicographic order.
Rank(dir, f) == 1 + Cardinality({g \in DOMAIN dir : PathLess(g, f)})

Contains(s, sub) ==
    \E i \in 0..(Len(s) - Len(sub)) : SubSeq(s, i + 1, i + Len(sub)) = sub

\* The text between the first start marker and the end marker that follows.
GalleryRegion(doc) ==
    LET i == FirstPos(doc, GALLERY_START)
        j == CHOOSE k \in (i + 1)..Len(doc) :
                 doc[k] = GALLERY_END /\ \A l \in (i + 1)..(k - 1) : doc[l] # GALLERY_END
    IN  SubSeq(doc, i + 1, j - 1)

\* C8: once the gallery is rendered there are as many cards as record files;
\* the card of rank i in lexicographic file-name order shows that file's
\* model and English description under the key radio<i>.desc; the entries
\* built for en and es carry the same numbering; and the written gallery
\* holds exactly these cards.
C8_CardsInFileNameOrder ==
    /\ cards # <<>> =>
          /\ Len(cards) = Cardinality(DOMAIN files)
          /\ \A f \in DOMAIN files :
                LET i == Rank(files, f)
                    d == files[f].data
                IN  /\ radios[i]["_file"] = f
                    /\ Contains(cards[i], <<"<h4>", d["model"], "</h4>">>)
                    /\ Contains(cards[i],
                                <<"<p data-i18n=\"", i18n_key(i), "\">">>
                                \o d["description_en"] \o <<"</p>">>)
                    /\ Occurrences(cards[i], CARD_OPEN) = 1
    /\ trans # NoEntries =>
          \A f \in DOMAIN files :
             LET i == Rank(files, f)
                 d == files[f].data
             IN  /\ trans.en[i] = <<i18n_key(i), d["description_en"]>>
                 /\ trans.es[i] = <<i18n_key(i), d["description_es"]>>
    /\ writes = 1 =>
          /\ Occurrences(GalleryRegion(disk), CARD_OPEN) = Cardinality(DOMAIN files)
          /\ GalleryRegion(disk) = <<INDENT>> \o Flatten(cards) \o <<INDENT>>

C8_Witness ==
    /\ pc = "done" /\ outcome = "built"
    /\ DOMAIN files = {<<49, 48, 46>>, <<50, 46>>}
    /\ files[<<49, 48, 46>>].data = Sold /\ files[<<50, 46>>].data = Plain
    /\ Contains(disk, <<"radio1.desc", "\">">> \o Sold["description_en"])

StatusOf(r) == IF "status" \in DOMAIN r THEN r["status"] ELSE "absent"
WithStatus(r, st) ==
    [k \in DOMAIN r \cup {"status"} |-> IF k = "status" THEN st ELSE r[k]]
IsPrice(t) == \E p \in {0, 10, 850, 1234, 125000} : t = format_price(p)

\* C9: a sold record's card has no mailto link; a collection record's card
\* has no price; a record without status has the card of the same record
\* with status "sale"; every status other than "sold" and "collection" gives
\* the sale branch, a price and the mailto link.
C9_StatusBranching ==
    \A i \in 1..Len(cards) :
       LET r == radios[i]
           st == StatusOf(r)
       IN  /\ st = "sold" => MAILTO \notin Range(cards[i])
           /\ st = "collection" => \A t \in Range(cards[i]) : ~IsPrice(t)
           /\ st = "absent" => cards[i] = render_card(WithStatus(r, "sale"), i)
           /\ st \notin {"sold", "collection"} =>
                 /\ Contains(cards[i], <<MAILTO, r["model"]>>)
                 /\ Contains(cards[i], <<"<span>", format_price(get(r, "price", 0)), "</span>">>)
                 /\ SOLD_LABEL \notin Range(cards[i])
                 /\ COLLECTION_LABEL \notin Range(cards[i])

C9_Witness ==
    /\ Len(cards) = 2
    /\ StatusOf(radios[1]) = "collection" /\ "price" \in DOMAIN radios[1]
    /\ StatusOf(radios[2]) \in {"absent", "reserved"}

\* C10 as stated: the spliced text is the document up to the LAST start
\* marker, then start marker, cards, end marker, then the document after an
\* end marker.
C10_LastStartMarkerWins ==
    pc = "spliced" =>
       \E j \in 1..Len(disk0) :
          /\ disk0[j] = GALLERY_END
          /\ html = SubSeq(disk0, 1, LastPos(disk0, GALLERY_START) - 1)
                    \o <<GALLERY_START, INDENT>> \o Flatten(cards) \o <<INDENT, GALLERY_END>>
                    \o SubSeq(disk0, j + 1, Len(disk0))

\* C10, amended: the spliced text is the document before the FIRST start
\* marker, then start marker, cards, end marker, then the document after the
\* FIRST end marker.
C10_FirstMarkersWin ==
    pc = "spliced" =>
       html = SubSeq(disk0, 1, FirstPos(disk0, GALLERY_START) - 1)
              \o <<GALLERY_START, INDENT>> \o Flatten(cards) \o <<INDENT, GALLERY_END>>
              \o SubSeq(disk0, FirstPos(disk0, GALLERY_END) + 1, Len(disk0))

C10_Witness ==
    /\ pc = "spliced"
    /\ Occurrences(disk0, GALLERY_START) = 2
    /\ html # disk0

WellMarked(doc) ==
    /\ Occurrences(doc, GALLERY_START) = 1
    /\ Occurrences(doc, GALLERY_END) = 1
    /\ FirstPos(doc, GALLERY_START) < FirstPos(doc, GALLERY_END)

NoBackslash(rs) ==
    \A i \in 1..Len(rs) :
       BS \notin Range(rs[i]["description_en"]) \cup Range(rs[i]["description_es"])

\* C2: when the previous run wrote the document and this run, with the same
\* records, wrote it again, the document is the same as before this run,
\* also when descriptions contain single quotes (stated for documents whose
\* gallery markers occur once and in order, and descriptions without
\* backslashes).
C2_SecondRunIdentical ==
    (pc = "done" /\ outcome = "built" /\ prevBuilt /\ WellMarked(disk0) /\ NoBackslash(radios))
    => disk = disk0

\* Position of the first  'key' \s* : \s* '  at or after from: the position
\* of the value's opening quote, 0 if there is none.
KeyOpensAt(doc, p, key) ==
    IF ~(p + 2 <= Len(doc) /\ doc[p] = Q /\ doc[p + 1] = key /\ doc[p + 2] = Q) THEN 0
    ELSE LET colon == skip_ws(doc, p + 3)
         IN  IF ~(colon <= Len(doc) /\ doc[colon] = ":") THEN 0
             ELSE LET open == skip_ws(doc, colon + 1)
                  IN  IF open <= Len(doc) /\ doc[open] = Q THEN open ELSE 0

FirstKey(doc, from, to, key) ==
    IF \E p \in from..to : KeyOpensAt(doc, p, key) # 0
    THEN KeyOpensAt(doc, CHOOSE p \in from..to :
                            /\ KeyOpensAt(doc, p, key) # 0
                            /\ \A q \in from..(p - 1) : KeyOpensAt(doc, q, key) = 0, key)
    ELSE 0

\* Reading a single-quoted literal back: a backslash gives the character
\* after it.
RECURSIVE js_unescape(_)
js_unescape(v) ==
    IF v = <<>> THEN <<>>
    ELSE IF Head(v) = BS /\ Len(v) >= 2 THEN <<v[2]>> \o js_unescape(Tail(Tail(v)))
    ELSE <<Head(v)>> \o js_unescape(Tail(v))

\* The literal that opens at open is exactly 'escaped' and an entry
\* separator or the end of the block follows it.
StoredExactly(doc, open, escaped) ==
    LET close == open + Len(escaped) + 1
    IN  /\ close <= Len(doc)
        /\ SubSeq(doc, open + 1, close - 1) = escaped
        /\ doc[close] = Q
        /\ skip_ws(doc, close + 1) <= Len(doc)
        /\ doc[skip_ws(doc, close + 1)] \in {",", "}"}

DescriptionOf(r, lang_key) ==
    IF lang_key = "en" THEN r["description_en"] ELSE r["description_es"]

\* C3: after a run that wrote the document, for each language whose block
\* is there and each record n whose key radio<n>.desc was in that block, the
\* literal stored under the key is the n-th description with its quotes
\* backslash-escaped, and reading it back gives the description, whatever
\* the value was before (stated for descriptions without backslashes).
C3_StoredValueRoundTrips ==
    (pc = "done" /\ outcome = "built" /\ NoBackslash(radios))
    => \A lang_key \in {"en", "es"} : \A n \in 1..Len(radios) :
          LET was == find_lang_block(disk0, lang_key)
              now == find_marker(disk, lang_key)
              desc == DescriptionOf(radios[n], lang_key)
          IN  (was.start # 0 /\ FirstKey(disk0, was.start, was.end, i18n_key(n)) # 0)
              => /\ now # 0
                 /\ FirstKey(disk, now, Len(disk), i18n_key(n)) # 0
                 /\ StoredExactly(disk, FirstKey(disk, now, Len(disk), i18n_key(n)),
                                  escape(desc))
                 /\ js_unescape(escape(desc)) = desc

\* The values of all matches of  'key'\s*:\s*'[^']*'  in doc, in order.
KeyValues(doc, key) ==
    LET at == {p \in 1..Len(doc) : match_at(doc, p, key).open # 0}
        nth(i) == CHOOSE p \in at : Cardinality({q \in at : q < p}) = i - 1
    IN  [i \in 1..Cardinality(at) |->
           SubSeq(doc, match_at(doc, nth(i), key).open + 1,
                  match_at(doc, nth(i), key).close - 1)]

OtherKeys(N) ==
    {"nav.home", "radio9.desc"} \cup {i18n_key(k) : k \in (N + 1)..(MaxRadios + 1)}

\* C4: after a run that wrote the document, every key that is not one of
\* radio<1..N>.desc is where it was, with the value it had: no such entry is
\* lost, changed or added.
C4_OtherKeysUntouched ==
    (pc = "done" /\ outcome = "built")
    => \A key \in OtherKeys(Len(radios)) : KeyValues(disk, key) = KeyValues(disk0, key)

MarkerMissing(h, lang_key) == \A i \in 1..Len(h) : ~MarkerAt(h, lang_key, i)

\* The text after the gallery splice, from the run's start document.
Spliced ==
    SubSeq(disk0, 1, FirstPos(disk0, GALLERY_START) - 1)
    \o <<GALLERY_START, INDENT>> \o Flatten(cards) \o <<INDENT, GALLERY_END>>
    \o SubSeq(disk0, FirstPos(disk0, GALLERY_END) + 1, Len(disk0))

Clean(entries) ==
    \A i \in 1..Len(entries) : Q \notin Range(entries[i][2]) /\ BS \notin Range(entries[i][2])

====
